---- MODULE Spec2Model ----
(***************************************************************************)
(* Model of the AdvancedRAG pipeline (core/advanced_rag_eski.py): query    *)
(* expansion, multi-query retrieval with prefix deduplication, cross-      *)
(* encoder reranking, context assembly and answer synthesis; and of the    *)
(* web layer (core/chatbot/api/views.py) serving requests concurrently on  *)
(* one module-level instance of it.                                        *)
(*                                                                         *)
(* Text is modelled as a sequence of Unicode code points, so that strip,   *)
(* split, slicing, ord(c) > 127 and str.replace are computed as Python     *)
(* computes them.                                                          *)
(***************************************************************************)
EXTENDS Integers, Sequences, FiniteSets, TLC

VARIABLES
    pc,                      \* position of the running call
    reranker,                \* self.reranker: "CrossEncoder" or "None"
    last_retrieved_context,  \* self.last_retrieved_context
    query,                   \* argument of answer / generate_multi_queries / rerank_documents
    queries,                 \* result of generate_multi_queries, argument of retrieve_documents
    n_per_query,             \* argument of retrieve_documents
    qidx,                    \* retrieve_documents: index of the next sub-query of the loop
    all_documents,           \* retrieve_documents: locals of the aggregation
    all_metadatas,
    all_distances,
    seen_docs,
    fetched,                 \* history: the documents the result loop iterated over, in order
    top_k,                   \* argument of rerank_documents
    reranked,                \* result of rerank_documents
    context,                 \* result of retrieve_context
    result,                  \* value returned by answer
    calls,                   \* number of external calls made by the running call, per call site
    last_io,                 \* outcomes of the external calls of the last step
    requests,                \* web layer: the requests served on the one rag_system
    db                       \* web layer: the rows of the database and the calendar

vars == <<pc, reranker, last_retrieved_context, query, queries, n_per_query, qidx,
          all_documents, all_metadatas, all_distances, seen_docs, fetched, top_k,
          reranked, context, result, calls, last_io, requests, db>>

-----------------------------------------------------------------------------
(* Python string and list primitives on code-point sequences               *)

Min(a, b) == IF a < b THEN a ELSE b

\* s[:k] for k >= 0
Slice(s, k) == SubSeq(s, 1, Min(k, Len(s)))

\* str.strip() with no argument strips Unicode whitespace
WHITESPACE == {9, 10, 11, 12, 13, 28, 29, 30, 31, 32, 133, 160}

\* str.isdigit(): ASCII digits and the superscript digits of Latin-1
DIGITS == (48..57) \cup {178, 179, 185}

RECURSIVE LStrip(_, _)
LStrip(s, chars) ==
    IF s # <<>> /\ Head(s) \in chars THEN LStrip(Tail(s), chars) ELSE s

RECURSIVE RStrip(_, _)
RStrip(s, chars) ==
    IF s # <<>> /\ s[Len(s)] \in chars THEN RStrip(SubSeq(s, 1, Len(s) - 1), chars) ELSE s

Strip(s) == RStrip(LStrip(s, WHITESPACE), WHITESPACE)

\* str.split(sep) for a one-character separator
RECURSIVE Split(_, _)
Split(s, sep) ==
    IF \E i \in 1..Len(s) : s[i] = sep
    THEN LET i == CHOOSE j \in 1..Len(s) : s[j] = sep /\ \A k \in 1..(j - 1) : s[k] # sep
         IN  <<SubSeq(s, 1, i - 1)>> \o Split(SubSeq(s, i + 1, Len(s)), sep)
    ELSE <<s>>

\* sep.join(parts)
RECURSIVE Join(_, _)
Join(sep, parts) ==
    IF parts = <<>> THEN <<>>
    ELSE IF Len(parts) = 1 THEN parts[1]
    ELSE parts[1] \o sep \o Join(sep, Tail(parts))

\* old in s
StartsWith(s, old) == Len(old) <= Len(s) /\ SubSeq(s, 1, Len(old)) = old

Contains(s, old) ==
    \E i \in 1..(Len(s) - Len(old) + 1) : SubSeq(s, i, i + Len(old) - 1) = old

\* s.replace(old, ""): one left-to-right pass over non-overlapping occurrences
RECURSIVE Remove(_, _)
Remove(s, old) ==
    IF s = <<>> THEN <<>>
    ELSE IF StartsWith(s, old) THEN Remove(SubSeq(s, Len(old) + 1, Len(s)), old)
    ELSE <<Head(s)>> \o Remove(Tail(s), old)

RECURSIVE Concat(_)
Concat(ss) == IF ss = <<>> THEN <<>> ELSE Head(ss) \o Concat(Tail(ss))

Rep(c, n) == [i \in 1..n |-> c]

-----------------------------------------------------------------------------
(* Outcomes of calls: a value returned, or an exception with its str(e)    *)

Ret(v)    == [raised |-> FALSE, detail |-> <<>>, val |-> v]
Raise(d)  == [raised |-> TRUE,  detail |-> d,    val |-> <<>>]

\* client.models.generate_content: raises, returns None, or returns a response
\* whose .text is a string (empty when the response carries no text)
GenRaise(d) == [detail |-> d,    kind |-> "raise", text |-> <<>>]
GenNone     == [detail |-> <<>>, kind |-> "none",  text |-> <<>>]
GenText(t)  == [detail |-> <<>>, kind |-> "text",  text |-> t]

\* `response and response.text`
HasText(r) == r.kind = "text" /\ r.text # <<>>

NoIO == <<>>

NoRequests == <<>>

\* the database before any row of the web layer is looked at
NoDb == <<>>

-----------------------------------------------------------------------------
(* generate_multi_queries                                                  *)

MAX_QUERIES == 4

NUMBERING == (48..57) \cup {46, 45, 32}

\* the translation step taking any response text, also an empty one
EnglishQueryEmptyKept(original_query, tr) ==
    IF tr.kind = "text" THEN Strip(tr.text) ELSE original_query

\* lines 56-75: the translation step
EnglishQuery(original_query, tr) ==
    IF tr.kind = "raise" THEN original_query
    ELSE IF HasText(tr) THEN Strip(tr.text) ELSE original_query

\* the loop body stripping the markers of every line and dropping what is
\* left when it is no longer than 3 characters
ParseLineCleaningAll(line) ==
    LET cleaned == Strip(LStrip(Strip(line), NUMBERING))
    IN  IF Len(cleaned) > 3 THEN <<cleaned>> ELSE <<>>

\* lines 109-118: the candidates one line of the response contributes
ParseLine(line) ==
    IF line = <<>> THEN <<>>
    ELSE LET q == Strip(line) IN
         IF q # <<>> /\ q[1] \notin DIGITS THEN <<q>>
         ELSE IF q # <<>> /\ Len(q) > 3
              THEN LET cleaned == Strip(LStrip(q, NUMBERING))
                   IN  IF cleaned # <<>> THEN <<cleaned>> ELSE <<>>
              ELSE <<>>

RECURSIVE ParseLines(_)
ParseLines(lines) ==
    IF lines = <<>> THEN <<>> ELSE ParseLine(Head(lines)) \o ParseLines(Tail(lines))

\* generate_multi_queries falling back to the original query when the
\* expansion fails
generate_multi_queries_original_on_failure(original_query, tr, ex) ==
    LET english_query == EnglishQuery(original_query, tr) IN
    IF ex.kind = "raise" THEN Ret(<<original_query>>)
    ELSE IF ~HasText(ex) THEN Ret(<<original_query>>)
    ELSE LET response_text == Strip(ex.text)
             generated == IF response_text # <<>> THEN Split(response_text, 10) ELSE <<>>
             qs == <<english_query>> \o ParseLines(generated)
         IN  Ret(Slice(qs, MAX_QUERIES))

\* generate_multi_queries returning every candidate
generate_multi_queries_unbounded(original_query, tr, ex) ==
    LET english_query == EnglishQuery(original_query, tr) IN
    IF ex.kind = "raise" THEN Ret(<<english_query>>)
    ELSE IF ~HasText(ex) THEN Ret(<<english_query>>)
    ELSE LET response_text == Strip(ex.text)
             generated == IF response_text # <<>> THEN Split(response_text, 10) ELSE <<>>
         IN  Ret(<<english_query>> \o ParseLines(generated))

\* lines 53-127; tr and ex are the outcomes of the two generate_content calls
generate_multi_queries(original_query, tr, ex) ==
    LET english_query == EnglishQuery(original_query, tr) IN
    IF ex.kind = "raise" THEN Ret(<<english_query>>)
    ELSE IF ~HasText(ex) THEN Ret(<<english_query>>)
    ELSE LET response_text == Strip(ex.text)
             generated == IF response_text # <<>> THEN Split(response_text, 10) ELSE <<>>
             qs == <<english_query>> \o ParseLines(generated)
         IN  Ret(Slice(qs, MAX_QUERIES))

-----------------------------------------------------------------------------
(* get_query_embedding and retrieve_documents                              *)

Some(v) == [v |-> v,    some |-> TRUE]
None    == [v |-> <<>>, some |-> FALSE]

\* client.models.embed_content: raises, returns a response without embeddings
\* (response.embeddings[0] raises IndexError), or returns a vector
EmbedRaise(d) == [kind |-> "raise", values |-> <<>>, detail |-> d]
EmbedEmpty    == [kind |-> "empty", values |-> <<>>, detail |-> <<>>]
EmbedOk(v)    == [kind |-> "ok",    values |-> v,    detail |-> <<>>]

\* collection.query: raises, or returns parallel lists, here one triple per hit
StoreRaise(d)   == [kind |-> "raise",   results |-> <<>>, detail |-> d]
StoreResults(r) == [kind |-> "results", results |-> r,    detail |-> <<>>]
NotCalled       == [kind |-> "notcalled", results |-> <<>>, detail |-> <<>>]

\* get_query_embedding with a failure turned into an empty vector, not None
get_query_embedding_empty_vector(emb) ==
    IF emb.kind = "ok" THEN Ret(Some(emb.values)) ELSE Ret(Some(<<>>))

\* lines 129-140
get_query_embedding(emb) ==
    IF emb.kind = "ok" THEN Ret(Some(emb.values)) ELSE Ret(None)

PREFIX_LEN == 200

\* the fingerprint taken of the whole document
doc_hash_whole(doc) == doc

\* line 170: hash(doc[:200]); the hash of a string is represented by the string
\* hashed (str hashes are taken to be collision-free)
doc_hash(doc) == Slice(doc, PREFIX_LEN)

EmptyAcc == [documents |-> <<>>, metadatas |-> <<>>, distances |-> <<>>, seen |-> {}]

\* the result loop remembering only the fingerprint of the last document kept
AddTripleLastSeen(acc, t) ==
    IF doc_hash(t.doc) \notin acc.seen
    THEN [documents |-> Append(acc.documents, t.doc),
          metadatas |-> Append(acc.metadatas, t.meta),
          distances |-> Append(acc.distances, t.dist),
          seen      |-> {doc_hash(t.doc)}]
    ELSE acc

\* the result loop appending the distance of every hit, also of a duplicate
AddTripleDistanceAlways(acc, t) ==
    IF doc_hash(t.doc) \notin acc.seen
    THEN [documents |-> Append(acc.documents, t.doc),
          metadatas |-> Append(acc.metadatas, t.meta),
          distances |-> Append(acc.distances, t.dist),
          seen      |-> acc.seen \cup {doc_hash(t.doc)}]
    ELSE [acc EXCEPT !.distances = Append(@, t.dist)]

\* lines 171-176: one iteration of the result loop
AddTriple(acc, t) ==
    IF doc_hash(t.doc) \notin acc.seen
    THEN [documents |-> Append(acc.documents, t.doc),
          metadatas |-> Append(acc.metadatas, t.meta),
          distances |-> Append(acc.distances, t.dist),
          seen      |-> acc.seen \cup {doc_hash(t.doc)}]
    ELSE acc

\* a hit whose document is None: doc[:200] raises TypeError
NoText == <<-1>>

\* lines 164-176: the result loop over zip(documents, metadatas, distances); a
\* hit without text ends it with an exception, which line 178 catches
RECURSIVE AddResults(_, _)
AddResults(acc, results) ==
    IF results = <<>> THEN acc
    ELSE IF Head(results).doc = NoText THEN acc
    ELSE AddResults(AddTriple(acc, Head(results)), Tail(results))

\* line 154: the vector store is queried only with an embedding
QueriesStore(emb) ==
    LET embedding == get_query_embedding(emb)
    IN  ~embedding.raised /\ embedding.val.some

\* the loop body with collection.query outside the try
RetrieveOneUnguarded(acc, emb, st) ==
    LET embedding == get_query_embedding(emb) IN
    IF embedding.raised THEN Raise(embedding.detail)
    ELSE IF ~embedding.val.some THEN Ret(acc)
    ELSE IF st.kind = "raise" THEN Raise(st.detail)
    ELSE Ret(AddResults(acc, st.results))

\* the loop body starting over from empty lists when collection.query raises
RetrieveOneDiscarding(acc, emb, st) ==
    LET embedding == get_query_embedding(emb) IN
    IF embedding.raised THEN Raise(embedding.detail)
    ELSE IF ~embedding.val.some THEN Ret(acc)
    ELSE IF st.kind = "raise" THEN Ret(EmptyAcc)
    ELSE Ret(AddResults(acc, st.results))

\* lines 152-179: the loop body for one sub-query; emb and st are the outcomes
\* of embed_content and collection.query
RetrieveOne(acc, emb, st) ==
    LET embedding == get_query_embedding(emb) IN
    IF embedding.raised THEN Raise(embedding.detail)
    ELSE IF ~embedding.val.some THEN Ret(acc)
    ELSE IF st.kind = "raise" THEN Ret(acc)
    ELSE Ret(AddResults(acc, st.results))

-----------------------------------------------------------------------------
(* rerank_documents                                                        *)

CHUNK_LEN == 400
LOW_SCORE == -10
TOP_CHECKED == 3

\* the fallback pairs with enumerate started at 1
IndexPairsFromOne(documents, k) ==
    [i \in 1..Min(k, Len(documents)) |-> <<documents[i], i>>]

\* [(doc, idx) for idx, doc in enumerate(documents[:top_k])]
IndexPairs(documents, k) ==
    [i \in 1..Min(k, Len(documents)) |-> <<documents[i], i - 1>>]

\* line 198
NonAscii(q) == \E i \in 1..Len(q) : q[i] > 127

\* lines 198-213
QueryForRanking(q, tr) ==
    IF NonAscii(q)
    THEN IF tr.kind = "raise" THEN q
         ELSE IF HasText(tr) THEN Strip(tr.text) ELSE q
    ELSE q

\* lines 216-219
Pairs(query_for_ranking, documents) ==
    [i \in 1..Len(documents) |-> <<query_for_ranking, Slice(documents[i], CHUNK_LEN)>>]

\* reranker.predict: raises, returns values that cannot be ordered (the sort
\* raises), returns no scores, or returns one score per pair, the same score
\* for the same pair
PredictRaise(d)  == [kind |-> "raise",  score |-> <<>>, detail |-> d]
PredictGarbage   == [kind |-> "garbage", score |-> <<>>, detail |-> <<>>]
PredictEmpty     == [kind |-> "empty",  score |-> <<>>, detail |-> <<>>]
PredictScores(f) == [kind |-> "scores", score |-> f,   detail |-> <<>>]

\* a descending sort that puts an element before those of equal score
RECURSIVE InsertDescBeforeEqual(_, _)
InsertDescBeforeEqual(sorted, x) ==
    IF sorted = <<>> THEN <<x>>
    ELSE IF Head(sorted)[2] > x[2]
         THEN <<Head(sorted)>> \o InsertDescBeforeEqual(Tail(sorted), x)
         ELSE <<x>> \o sorted

\* list.sort(key=lambda x: x[1], reverse=True): stable, descending
RECURSIVE InsertDesc(_, _)
InsertDesc(sorted, x) ==
    IF sorted = <<>> THEN <<x>>
    ELSE IF Head(sorted)[2] >= x[2] THEN <<Head(sorted)>> \o InsertDesc(Tail(sorted), x)
    ELSE <<x>> \o sorted

RECURSIVE SortDesc(_)
SortDesc(s) ==
    IF s = <<>> THEN <<>>
    ELSE InsertDesc(SortDesc(SubSeq(s, 1, Len(s) - 1)), s[Len(s)])

\* an ascending sort that puts an element before those of equal distance
RECURSIVE InsertAscBeforeEqual(_, _)
InsertAscBeforeEqual(sorted, x) ==
    IF sorted = <<>> THEN <<x>>
    ELSE IF Head(sorted)[2] < x[2]
         THEN <<Head(sorted)>> \o InsertAscBeforeEqual(Tail(sorted), x)
         ELSE <<x>> \o sorted

\* list.sort(key=lambda x: x[1]): stable, ascending
RECURSIVE InsertAsc(_, _)
InsertAsc(sorted, x) ==
    IF sorted = <<>> THEN <<x>>
    ELSE IF Head(sorted)[2] <= x[2] THEN <<Head(sorted)>> \o InsertAsc(Tail(sorted), x)
    ELSE <<x>> \o sorted

RECURSIVE SortAsc(_)
SortAsc(s) ==
    IF s = <<>> THEN <<>>
    ELSE InsertAsc(SortAsc(SubSeq(s, 1, Len(s) - 1)), s[Len(s)])

Zip2(a, b) == [i \in 1..Min(Len(a), Len(b)) |-> <<a[i], b[i]>>]

\* lines 223-227: the list of scores predict returned
Scores(pairs, pr) ==
    IF pr.kind = "scores" THEN [i \in 1..Len(pairs) |-> pr.score[pairs[i]]] ELSE <<>>

\* the scores zipped with the chunks that were scored
DocScoresChunks(documents, pairs, pr) ==
    Zip2([i \in 1..Len(pairs) |-> pairs[i][2]], Scores(pairs, pr))

\* line 230: list(zip(documents, scores))
DocScores(documents, pairs, pr) == Zip2(documents, Scores(pairs, pr))

\* the guard with `score <= -10`
LowConfidenceInclusive(doc_scores) ==
    \A i \in 1..Min(TOP_CHECKED, Len(doc_scores)) : doc_scores[i][2] <= LOW_SCORE

\* line 234
LowConfidence(doc_scores) ==
    \A i \in 1..Min(TOP_CHECKED, Len(doc_scores)) : doc_scores[i][2] < LOW_SCORE

\* line 192
SkipsRerank(documents, rr) == documents = <<>> \/ rr = "None"

\* line 198: the translation call is made only for a non-ASCII query
TranslatesForRanking(q, documents, rr) == ~SkipsRerank(documents, rr) /\ NonAscii(q)

\* rerank_documents with the sort outside the try
rerank_documents_sort_unguarded(q, documents, k, rr, tr, pr) ==
    IF SkipsRerank(documents, rr) THEN Ret(IndexPairs(documents, k))
    ELSE LET pairs == Pairs(QueryForRanking(q, tr), documents) IN
         IF pr.kind = "raise" THEN Ret(IndexPairs(documents, k))
         ELSE IF pr.kind = "garbage" THEN Raise(<<>>)
         ELSE LET doc_scores == SortDesc(DocScores(documents, pairs, pr)) IN
              IF LowConfidence(doc_scores) THEN Ret(IndexPairs(documents, k))
              ELSE Ret(Slice(doc_scores, k))

\* lines 189-242; tr and pr are the outcomes of generate_content and predict
rerank_documents(q, documents, k, rr, tr, pr) ==
    IF SkipsRerank(documents, rr) THEN Ret(IndexPairs(documents, k))
    ELSE LET pairs == Pairs(QueryForRanking(q, tr), documents) IN
         IF pr.kind \in {"raise", "garbage"} THEN Ret(IndexPairs(documents, k))
         ELSE LET doc_scores == SortDesc(DocScores(documents, pairs, pr)) IN
              IF LowConfidence(doc_scores) THEN Ret(IndexPairs(documents, k))
              ELSE Ret(Slice(doc_scores, k))

-----------------------------------------------------------------------------
(* retrieve_context and answer                                             *)

N_PER_QUERY == 12
TOP_K == 6

\* "\n\n---\n\n"
SEPARATOR == <<10, 10, 45, 45, 45, 10, 10>>

Firsts(ps) == [i \in 1..Len(ps) |-> ps[i][1]]

\* lines 264-271
ByDistance(documents, distances) ==
    Firsts(Slice(SortAsc(Zip2(documents, distances)), TOP_K))

\* line 253
NoDocuments(documents) == documents = <<>>

\* lines 256-271: rerank_documents' result (empty without a reranker) and the
\* documents of the context
FinalDocuments(q, acc, rr, tr, pr) ==
    IF rr # "None"
    THEN LET r == rerank_documents(q, acc.documents, TOP_K, rr, tr, pr)
         IN  IF r.raised THEN r
             ELSE Ret([reranked |-> r.val, final_documents |-> Firsts(r.val)])
    ELSE Ret([reranked |-> <<>>,
              final_documents |-> ByDistance(acc.documents, acc.distances)])

\* lines 253-281: what retrieve_context does with the result acc of
\* retrieve_documents: the context returned and the value of
\* self.last_retrieved_context afterwards (last: its value before)
retrieve_context(q, acc, rr, last, tr, pr) ==
    IF NoDocuments(acc.documents)
    THEN Ret([context |-> <<>>, last_retrieved_context |-> last, reranked |-> <<>>])
    ELSE LET f == FinalDocuments(q, acc, rr, tr, pr) IN
         IF f.raised THEN f
         ELSE LET ctx == Join(SEPARATOR, f.val.final_documents)
              IN  Ret([context |-> ctx, last_retrieved_context |-> ctx,
                       reranked |-> f.val.reranked])

\* "❌ İlgili bilgi bulunamadı. Lütfen sorunuzu yeniden ifade etmeyi deneyin."
MSG_NO_INFO == <<10060,32,304,108,103,105,108,105,32,98,105,108,103,105,32,98,117,108,117,110,97,109,97,100,305,46,32,76,252,116,102,101,110,32,115,111,114,117,110,117,122,117,32,121,101,110,105,100,101,110,32,105,102,97,100,101,32,101,116,109,101,121,105,32,100,101,110,101,121,105,110,46>>

\* "❌ Cevap oluşturulamadı. Lütfen tekrar deneyin."
MSG_NO_ANSWER == <<10060,32,67,101,118,97,112,32,111,108,117,351,116,117,114,117,108,97,109,97,100,305,46,32,76,252,116,102,101,110,32,116,101,107,114,97,114,32,100,101,110,101,121,105,110,46>>

\* "❌ Bir hata oluştu: "
MSG_ERROR_PREFIX == <<10060,32,66,105,114,32,104,97,116,97,32,111,108,117,351,116,117,58,32>>

\* lines 364-368
SOFTENERS == <<
    <<98,101,108,107,105,32,100,101>>,                                      \* "belki de"
    <<111,108,97,98,105,108,105,114>>,                                      \* "olabilir"
    <<98,97,122,305,32,100,117,114,117,109,108,97,114,100,97>>,             \* "bazı durumlarda"
    <<104,101,114,32,122,97,109,97,110,32,100,101,287,105,108>>,            \* "her zaman değil"
    <<103,101,110,101,108,108,101,109,101,32,121,97,112,109,97,109,97,107,32,103,101,114,101,107>>, \* "genelleme yapmamak gerek"
    <<121,97,114,103,305,108,97,121,305,99,305,32,111,108,109,97,121,305,110>>, \* "yargılayıcı olmayın"
    <<104,101,114,107,101,115,32,102,97,114,107,108,305,100,305,114>> >>    \* "herkes farklıdır"

\* lines 370-371
RECURSIVE RemoveSofteners(_, _)
RemoveSofteners(answer, softeners) ==
    IF softeners = <<>> THEN answer
    ELSE RemoveSofteners(Remove(answer, Head(softeners)), Tail(softeners))

\* the test written `if context is None`
ShortCircuitsOnNone(ctx) == FALSE

\* line 293: `if not context`
ShortCircuits(ctx) == ctx = <<>>

\* the post-processing applied to any response text, also an empty one
SynthesizeEmptyReturned(g) ==
    IF g.kind = "raise" THEN Ret(MSG_ERROR_PREFIX \o g.detail)
    ELSE IF g.kind = "text" THEN Ret(RemoveSofteners(g.text, SOFTENERS))
    ELSE Ret(MSG_NO_ANSWER)

\* lines 347-379: the value answer returns for the outcome g of the final
\* generate_content call
Synthesize(g) ==
    IF g.kind = "raise" THEN Ret(MSG_ERROR_PREFIX \o g.detail)
    ELSE IF HasText(g) THEN Ret(RemoveSofteners(g.text, SOFTENERS))
    ELSE Ret(MSG_NO_ANSWER)

-----------------------------------------------------------------------------
(* The environment: queries, documents and the outcomes of external calls  *)

MaxResults == 2     \* hits one vector-store query returns in the model
MaxLines == 3       \* lines of an expansion response
MaxDocs == 3        \* documents handed to rerank_documents on its own
MaxTopK == 3        \* top_k handed to rerank_documents on its own
MaxFragments == 3   \* fragments a generated answer is made of

Q_EN == <<119,104,121>>              \* "why"
Q_TR == <<110,105,231,105,110>>      \* "niçin"
Queries == {Q_EN, Q_TR}

ERR_A == <<113,117,111,116,97>>      \* "quota"
ERR_B == <<53,48,51>>                \* "503"

DOC_A1 == Rep(97, PREFIX_LEN) \o <<49>>     \* 200 x "a", then "1"
DOC_A2 == Rep(97, PREFIX_LEN) \o <<50>>     \* 200 x "a", then "2"
DOC_B  == <<98,105,114>>                    \* "bir"
DOC_EMPTY == <<>>
DOC_L1 == Rep(99, CHUNK_LEN) \o <<49>>      \* 400 x "c", then "1"
DOC_L2 == Rep(99, CHUNK_LEN) \o <<50>>      \* 400 x "c", then "2"

Triple(d, m, x) == [doc |-> d, meta |-> m, dist |-> x]

\* hits of the vector store: (document, metadata, distance)
Triples == { Triple(DOC_A1, "a1", 2), Triple(DOC_A2, "a2", 1), Triple(DOC_EMPTY, "e", 3) }

SeqsUpTo(S, n) == UNION { [1..k -> S] : k \in 0..n }

\* more hits, for retrieve_documents on its own, one of them without text
MoreTriples ==
    Triples \cup { Triple(DOC_B, "b", 2), Triple(DOC_A1, "a1", 4), Triple(NoText, "n", 5) }

ResultLists(T, n) == SeqsUpTo(T, Min(n, MaxResults))

\* " why so\n"
TranslateOutcomes ==
    { GenRaise(ERR_A), GenNone, GenText(<<>>), GenText(<<32>>),
      GenText(<<32,119,104,121,32,115,111,10>>) }

\* "how\n1. who"
ExpandOutcomes ==
    { GenRaise(ERR_A), GenNone, GenText(<<>>), GenText(<<104,111,119,10,49,46,32,119,104,111>>) }

EmbedOutcomes == { EmbedRaise(ERR_A), EmbedEmpty, EmbedOk(<<1>>) }

StoreOutcomes(T, n) ==
    { StoreRaise(ERR_B) } \cup { StoreResults(r) : r \in ResultLists(T, n) }

ScoreVals == {LOW_SCORE - 2, LOW_SCORE - 1, LOW_SCORE, 3}

Range(f) == { f[i] : i \in DOMAIN f }

PredictOutcomes(pairs) ==
    { PredictRaise(ERR_A), PredictGarbage, PredictEmpty }
        \cup { PredictScores(f) : f \in [Range(pairs) -> ScoreVals] }

\* "bence olabilir" (contains a softener) and "evet"
AnswerOutcomes ==
    { GenRaise(ERR_A), GenRaise(ERR_B), GenNone, GenText(<<>>),
      GenText(<<98,101,110,99,101,32,111,108,97,98,105,108,105,114>>),
      GenText(<<101,118,101,116>>) }

-----------------------------------------------------------------------------
(* The pipeline: answer(query) on one AdvancedRAG instance                 *)

\* calls made by the running invocation, per call site, and embed_raised: how
\* many of its embed_content calls raised
ZeroCalls == [translate |-> 0, expand |-> 0, embed |-> 0, embed_raised |-> 0, query |-> 0,
              rerank_translate |-> 0, predict |-> 0, generate |-> 0]

Acc == [documents |-> all_documents, metadatas |-> all_metadatas,
        distances |-> all_distances, seen |-> seen_docs]

\* lines 47-51
Init ==
    /\ pc = "idle"
    /\ reranker \in {"CrossEncoder", "None"}
    /\ last_retrieved_context = <<>>
    /\ query = <<>>
    /\ queries = <<>>
    /\ n_per_query = N_PER_QUERY
    /\ qidx = 1
    /\ all_documents = <<>>
    /\ all_metadatas = <<>>
    /\ all_distances = <<>>
    /\ seen_docs = {}
    /\ fetched = <<>>
    /\ top_k = TOP_K
    /\ reranked = <<>>
    /\ context = <<>>
    /\ result = <<>>
    /\ calls = ZeroCalls
    /\ last_io = NoIO
    /\ requests = NoRequests
    /\ db = NoDb

\* an exception leaves answer
Propagates ==
    /\ pc' = "raised"
    /\ UNCHANGED <<last_retrieved_context, queries, qidx, all_documents, all_metadatas,
                   all_distances, seen_docs, reranked, context, result>>

\* lines 283-291: answer(q) is entered
Call ==
    /\ pc \in {"idle", "done", "raised"}
    /\ \E q \in Queries : query' = q
    /\ pc' = "expand"
    /\ queries' = <<>>
    /\ qidx' = 1
    /\ all_documents' = <<>>
    /\ all_metadatas' = <<>>
    /\ all_distances' = <<>>
    /\ seen_docs' = {}
    /\ reranked' = <<>>
    /\ context' = <<>>
    /\ result' = <<>>
    /\ calls' = ZeroCalls
    /\ last_io' = NoIO
    /\ UNCHANGED <<db, requests, reranker, last_retrieved_context, n_per_query, fetched, top_k>>

\* generate_multi_queries making the translation call again when it raised
ExpandRetrying(tr, ex) ==
    /\ pc = "expand"
    /\ LET r == generate_multi_queries(query, tr, ex) IN
       IF r.raised THEN Propagates
       ELSE /\ queries' = r.val
            /\ pc' = "retrieve"
            /\ UNCHANGED <<last_retrieved_context, qidx, all_documents, all_metadatas,
                           all_distances, seen_docs, reranked, context, result>>
    /\ calls' = [calls EXCEPT !.translate = @ + (IF tr.kind = "raise" THEN 2 ELSE 1),
                              !.expand = @ + 1]
    /\ UNCHANGED <<db, requests, reranker, query, n_per_query, fetched, top_k>>

\* line 248: generate_multi_queries, its two generate_content calls ending tr, ex
Expand(tr, ex) ==
    /\ pc = "expand"
    /\ LET r == generate_multi_queries(query, tr, ex) IN
       IF r.raised THEN Propagates
       ELSE /\ queries' = r.val
            /\ pc' = "retrieve"
            /\ UNCHANGED <<last_retrieved_context, qidx, all_documents, all_metadatas,
                           all_distances, seen_docs, reranked, context, result>>
    /\ calls' = [calls EXCEPT !.translate = @ + 1, !.expand = @ + 1]
    /\ UNCHANGED <<db, requests, reranker, query, n_per_query, fetched, top_k>>

ExpandQuery ==
    \E tr \in TranslateOutcomes, ex \in ExpandOutcomes : Expand(tr, ex) /\ last_io' = NoIO

\* lines 152-179: one iteration of the loop of retrieve_documents, its
\* embed_content and collection.query calls ending emb, st
Retrieve(emb, st) ==
    /\ pc = "retrieve"
    /\ qidx <= Len(queries)
    /\ LET r == RetrieveOne(Acc, emb, st) IN
       IF r.raised THEN Propagates
       ELSE /\ all_documents' = r.val.documents
            /\ all_metadatas' = r.val.metadatas
            /\ all_distances' = r.val.distances
            /\ seen_docs' = r.val.seen
            /\ qidx' = qidx + 1
            /\ pc' = IF qidx = Len(queries) THEN "retrieved" ELSE "retrieve"
            /\ UNCHANGED <<last_retrieved_context, queries, reranked, context, result>>
    /\ calls' = [calls EXCEPT !.embed = @ + 1,
                              !.embed_raised = @ + (IF emb.kind = "raise" THEN 1 ELSE 0),
                              !.query = @ + (IF QueriesStore(emb) THEN 1 ELSE 0)]
    /\ UNCHANGED <<db, requests, reranker, query, n_per_query, top_k>>

StoreOutcomesFor(T, emb) ==
    IF QueriesStore(emb) THEN StoreOutcomes(T, n_per_query) ELSE {NotCalled}

RetrieveQuery ==
    \E emb \in EmbedOutcomes : \E st \in StoreOutcomesFor(Triples, emb) :
        Retrieve(emb, st) /\ UNCHANGED <<fetched, last_io>>

RerankTranslateOutcomes(rr) ==
    IF TranslatesForRanking(query, all_documents, rr) THEN TranslateOutcomes ELSE {GenNone}

RerankPredictOutcomes(rr, tr) ==
    IF ~SkipsRerank(all_documents, rr)
    THEN PredictOutcomes(Pairs(QueryForRanking(query, tr), all_documents))
    ELSE {PredictGarbage}

RerankCalls(rr) ==
    [calls EXCEPT
        !.rerank_translate = @ + (IF TranslatesForRanking(query, all_documents, rr) THEN 1 ELSE 0),
        !.predict = @ + (IF ~SkipsRerank(all_documents, rr) THEN 1 ELSE 0)]

\* lines 253-281 and 291-294: the rest of retrieve_context, then answer's
\* test of the context
Assembling(tr, pr) ==
    /\ pc = "retrieved"
    /\ LET r == retrieve_context(query, Acc, reranker, last_retrieved_context, tr, pr) IN
       IF r.raised THEN Propagates
       ELSE /\ context' = r.val.context
            /\ last_retrieved_context' = r.val.last_retrieved_context
            /\ reranked' = r.val.reranked
            /\ IF ShortCircuits(r.val.context)
               THEN result' = MSG_NO_INFO /\ pc' = "done"
               ELSE result' = result /\ pc' = "generate"
            /\ UNCHANGED <<queries, qidx, all_documents, all_metadatas,
                           all_distances, seen_docs>>
    /\ calls' = IF NoDocuments(all_documents) THEN calls ELSE RerankCalls(reranker)
    /\ UNCHANGED <<db, requests, reranker, query, n_per_query, fetched, top_k, last_io>>

Assemble ==
    \E tr \in RerankTranslateOutcomes(reranker) :
    \E pr \in RerankPredictOutcomes(reranker, tr) : Assembling(tr, pr)

\* lines 347-379: the final generate_content call, ending g, and the
\* post-processing of its text
Generate(g) ==
    /\ pc = "generate"
    /\ LET r == Synthesize(g) IN
       IF r.raised THEN Propagates
       ELSE /\ result' = r.val
            /\ pc' = "done"
            /\ UNCHANGED <<last_retrieved_context, queries, qidx, all_documents,
                           all_metadatas, all_distances, seen_docs, reranked, context>>
    /\ calls' = [calls EXCEPT !.generate = @ + 1]
    /\ last_io' = <<g>>
    /\ UNCHANGED <<db, requests, reranker, query, n_per_query, fetched, top_k>>

GenerateAnswer == \E g \in AnswerOutcomes : Generate(g)

Next == Call \/ ExpandQuery \/ RetrieveQuery \/ Assemble \/ GenerateAnswer

Spec == Init /\ [][Next]_vars

-----------------------------------------------------------------------------
(* generate_multi_queries on its own                                       *)

\* lines of an expansion response: "", "how", "1. who", "12", "- what",
\* "2024", "  ", "²x y"
Lines ==
    { <<>>, <<104,111,119>>, <<49,46,32,119,104,111>>, <<49,50>>,
      <<45,32,119,104,97,116>>, <<50,48,50,52>>, <<32,32>>, <<178,120,32,121>> }

ExpandTexts == { Join(<<10>>, ls) : ls \in SeqsUpTo(Lines, MaxLines) }

MoreTranslateOutcomes == TranslateOutcomes \cup { GenText(<<9,10>>) }

MoreExpandOutcomes == { GenRaise(ERR_A), GenNone } \cup { GenText(t) : t \in ExpandTexts }

InitExpand ==
    /\ pc = "expand"
    /\ reranker = "None"
    /\ last_retrieved_context = <<>>
    /\ query \in Queries
    /\ queries = <<>>
    /\ n_per_query = N_PER_QUERY
    /\ qidx = 1
    /\ all_documents = <<>>
    /\ all_metadatas = <<>>
    /\ all_distances = <<>>
    /\ seen_docs = {}
    /\ fetched = <<>>
    /\ top_k = TOP_K
    /\ reranked = <<>>
    /\ context = <<>>
    /\ result = <<>>
    /\ calls = ZeroCalls
    /\ last_io = NoIO
    /\ requests = NoRequests
    /\ db = NoDb

ExpandAlone ==
    /\ pc = "expand"
    /\ \E tr \in MoreTranslateOutcomes, ex \in MoreExpandOutcomes :
         Expand(tr, ex) /\ last_io' = <<tr, ex>>

SpecExpand == InitExpand /\ [][ExpandAlone]_vars

-----------------------------------------------------------------------------
(* retrieve_documents on its own                                           *)

InitRetrieve ==
    /\ pc = "retrieve"
    /\ reranker = "None"
    /\ last_retrieved_context = <<>>
    /\ query = <<>>
    /\ queries \in { <<Q_EN>>, <<Q_EN, Q_TR>> }
    /\ n_per_query \in {1, N_PER_QUERY}
    /\ qidx = 1
    /\ all_documents = <<>>
    /\ all_metadatas = <<>>
    /\ all_distances = <<>>
    /\ seen_docs = {}
    /\ fetched = <<>>
    /\ top_k = TOP_K
    /\ reranked = <<>>
    /\ context = <<>>
    /\ result = <<>>
    /\ calls = ZeroCalls
    /\ last_io = NoIO
    /\ requests = NoRequests
    /\ db = NoDb

\* the documents of the hits the result loop got through: those before the
\* first hit without text
Docs(results) ==
    LET n == IF \E i \in 1..Len(results) : results[i].doc = NoText
             THEN (CHOOSE i \in 1..Len(results) :
                      /\ results[i].doc = NoText
                      /\ \A k \in 1..(i - 1) : results[k].doc # NoText) - 1
             ELSE Len(results)
    IN  [i \in 1..n |-> results[i].doc]

RetrieveAlone ==
    \E emb \in EmbedOutcomes : \E st \in StoreOutcomesFor(MoreTriples, emb) :
        /\ Retrieve(emb, st)
        /\ fetched' = fetched \o Docs(st.results)
        /\ last_io' = <<emb, st>>

SpecRetrieve == InitRetrieve /\ [][RetrieveAlone]_vars

-----------------------------------------------------------------------------
(* rerank_documents on its own                                             *)

RerankDocs == {DOC_B, DOC_L1, DOC_L2}

InitRerank ==
    /\ pc = "rerank"
    /\ reranker \in {"CrossEncoder", "None"}
    /\ last_retrieved_context = <<>>
    /\ query \in Queries
    /\ queries = <<>>
    /\ n_per_query = N_PER_QUERY
    /\ qidx = 1
    /\ all_documents \in SeqsUpTo(RerankDocs, MaxDocs)
    /\ all_metadatas = <<>>
    /\ all_distances = <<>>
    /\ seen_docs = {}
    /\ fetched = <<>>
    /\ top_k \in 0..MaxTopK
    /\ reranked = <<>>
    /\ context = <<>>
    /\ result = <<>>
    /\ calls = ZeroCalls
    /\ last_io = NoIO
    /\ requests = NoRequests
    /\ db = NoDb

\* lines 189-242: rerank_documents(query, all_documents, top_k)
RerankAlone ==
    /\ pc = "rerank"
    /\ \E tr \in RerankTranslateOutcomes(reranker) :
       \E pr \in RerankPredictOutcomes(reranker, tr) :
         LET r == rerank_documents(query, all_documents, top_k, reranker, tr, pr) IN
         /\ last_io' = <<tr, pr>>
         /\ IF r.raised THEN Propagates
            ELSE /\ reranked' = r.val
                 /\ pc' = "reranked"
                 /\ UNCHANGED <<last_retrieved_context, queries, qidx, all_documents,
                                all_metadatas, all_distances, seen_docs, context, result>>
    /\ calls' = RerankCalls(reranker)
    /\ UNCHANGED <<db, requests, reranker, query, n_per_query, fetched, top_k>>

SpecRerank == InitRerank /\ [][RerankAlone]_vars

-----------------------------------------------------------------------------
(* The post-processing of answer on its own                                *)

\* "belki de", "olabilir", "b", "elki de", "ola", "bilir", " ve ",
\* "Olabilir", "herkes farklıdır"
Fragments ==
    { <<98,101,108,107,105,32,100,101>>, <<111,108,97,98,105,108,105,114>>,
      <<98>>, <<101,108,107,105,32,100,101>>, <<111,108,97>>, <<98,105,108,105,114>>,
      <<32,118,101,32>>, <<79,108,97,98,105,108,105,114>>,
      <<104,101,114,107,101,115,32,102,97,114,107,108,305,100,305,114>> }

GeneratedTexts == { Concat(fs) : fs \in SeqsUpTo(Fragments, MaxFragments) }

InitSynthesize ==
    /\ pc = "generate"
    /\ reranker = "None"
    /\ last_retrieved_context = DOC_B
    /\ query \in Queries
    /\ queries = <<query>>
    /\ n_per_query = N_PER_QUERY
    /\ qidx = 2
    /\ all_documents = <<DOC_B>>
    /\ all_metadatas = <<"b">>
    /\ all_distances = <<2>>
    /\ seen_docs = {doc_hash(DOC_B)}
    /\ fetched = <<>>
    /\ top_k = TOP_K
    /\ reranked = <<>>
    /\ context = DOC_B
    /\ result = <<>>
    /\ calls = [ZeroCalls EXCEPT !.translate = 1, !.expand = 1, !.embed = 1, !.query = 1]
    /\ last_io = NoIO
    /\ requests = NoRequests
    /\ db = NoDb

SynthesizeAlone == \E t \in GeneratedTexts : Generate(GenText(t))

SpecSynthesize == InitSynthesize /\ [][SynthesizeAlone]_vars

-----------------------------------------------------------------------------
(* retrieve_context on its own, over a store of many distinct documents    *)

\* "how", "1. who", "- what", "²x y", "how": five candidates
LongExpansion ==
    Join(<<10>>, << <<104,111,119>>, <<49,46,32,119,104,111>>, <<45,32,119,104,97,116>>,
                    <<178,120,32,121>>, <<104,111,119>> >>)

\* hit i of the store: a one-character document of its own, the later the
\* nearer, two by two at the same distance
WideHit(i) == Triple(<<100 + i>>, "w", (MAX_QUERIES * MaxResults - i + 1) \div 2)

\* the k-th page of hits, no longer than n_results
Page(k) ==
    [i \in 1..Min(n_per_query, MaxResults) |-> WideHit((k - 1) * MaxResults + i)]

PagedOutcomes == { StoreRaise(ERR_B) } \cup { StoreResults(Page(k)) : k \in 1..MAX_QUERIES }

\* scores of predict: one score for all pairs, or a score by document
WideScores(pairs) ==
    { PredictRaise(ERR_A) }
        \cup { PredictScores([p \in Range(pairs) |-> v]) : v \in {LOW_SCORE - 1, 3} }
        \cup { PredictScores([p \in Range(pairs) |-> p[2][1] % 3]) }

CallOnce == pc = "idle" /\ Call

ExpandLong ==
    \E ex \in { GenRaise(ERR_A), GenText(LongExpansion) } :
        Expand(GenNone, ex) /\ last_io' = NoIO

RetrievePage ==
    \E emb \in EmbedOutcomes :
    \E st \in (IF QueriesStore(emb) THEN PagedOutcomes ELSE {NotCalled}) :
        /\ Retrieve(emb, st)
        /\ fetched' = fetched \o Docs(st.results)
        /\ last_io' = last_io

AssembleWide ==
    \E tr \in RerankTranslateOutcomes(reranker) :
    \E pr \in (IF SkipsRerank(all_documents, reranker) THEN {PredictGarbage}
               ELSE WideScores(Pairs(QueryForRanking(query, tr), all_documents))) :
        Assembling(tr, pr)

NextContext == CallOnce \/ ExpandLong \/ RetrievePage \/ AssembleWide

SpecContext == Init /\ [][NextContext]_vars

-----------------------------------------------------------------------------
(* The web layer: requests served concurrently on the module-level         *)
(* rag_system of chatbot/api/views.py                                      *)

Requests == {1, 2}

CONTEXT_USED_LEN == 2000

NewRequest ==
    [pc |-> "idle", message |-> <<>>, documents |-> <<>>, context |-> <<>>,
     answer |-> <<>>, context_used |-> None]

\* what retrieve_documents gave a request: nothing, or one hit
RequestAccs == { EmptyAcc } \cup { AddTriple(EmptyAcc, t) : t \in Triples }

\* the context read from an attribute the instance does not have
ContextReadMissing(last) == <<>>

\* views.py lines 255-258: the context is read from the shared instance
ContextRead(last) == last

\* views.py line 189: context_used[:2000] if context_used else None
ContextUsed(context_used) ==
    IF context_used # <<>> THEN Some(Slice(context_used, CONTEXT_USED_LEN)) ELSE None

InitConcurrent ==
    /\ pc = "idle"
    /\ reranker \in {"CrossEncoder", "None"}
    /\ last_retrieved_context = <<>>
    /\ query = <<>>
    /\ queries = <<>>
    /\ n_per_query = N_PER_QUERY
    /\ qidx = 1
    /\ all_documents = <<>>
    /\ all_metadatas = <<>>
    /\ all_distances = <<>>
    /\ seen_docs = {}
    /\ fetched = <<>>
    /\ top_k = TOP_K
    /\ reranked = <<>>
    /\ context = <<>>
    /\ result = <<>>
    /\ calls = ZeroCalls
    /\ last_io = NoIO
    /\ requests = [r \in Requests |-> NewRequest]
    /\ db = NoDb

\* the locals of the pipeline live in the requests
OnlyRequests ==
    UNCHANGED <<pc, reranker, query, queries, n_per_query, qidx, all_documents,
                all_metadatas, all_distances, seen_docs, fetched, top_k, reranked,
                context, result, calls, last_io, db>>

\* views.py lines 135-249: post, up to the call of rag_system.answer
Post(r) ==
    /\ requests[r].pc = "idle"
    /\ \E m \in Queries :
         requests' = [requests EXCEPT ![r].pc = "answering", ![r].message = m]
    /\ UNCHANGED last_retrieved_context
    /\ OnlyRequests

\* lines 244-294 of the pipeline, run for request r: retrieve_context, acc the
\* result of its retrieve_documents, and answer's test of the context
RequestRetrieves(r) ==
    /\ requests[r].pc = "answering"
    /\ \E acc \in RequestAccs : \E tr \in TranslateOutcomes :
       \E pr \in (IF SkipsRerank(acc.documents, reranker) THEN {PredictGarbage}
                  ELSE PredictOutcomes(Pairs(QueryForRanking(requests[r].message, tr),
                                             acc.documents))) :
         LET rc == retrieve_context(requests[r].message, acc, reranker,
                                    last_retrieved_context, tr, pr)
         IN  /\ ~rc.raised
             /\ last_retrieved_context' = rc.val.last_retrieved_context
             /\ requests' =
                  [requests EXCEPT
                     ![r].documents = acc.documents,
                     ![r].context = rc.val.context,
                     ![r].answer = IF ShortCircuits(rc.val.context) THEN MSG_NO_INFO ELSE @,
                     ![r].pc = IF ShortCircuits(rc.val.context) THEN "answered"
                               ELSE "generating"]
    /\ OnlyRequests

\* lines 347-379 of the pipeline, run for request r: rag_system.answer returns
RequestGenerates(r) ==
    /\ requests[r].pc = "generating"
    /\ \E g \in AnswerOutcomes :
         LET a == Synthesize(g)
         IN  /\ ~a.raised
             /\ requests' = [requests EXCEPT ![r].answer = a.val, ![r].pc = "answered"]
    /\ UNCHANGED last_retrieved_context
    /\ OnlyRequests

\* views.py lines 255-261 and 185-192: the context is read from the instance
\* and saved with the AI message
RequestFinishes(r) ==
    /\ requests[r].pc = "answered"
    /\ requests' = [requests EXCEPT
                      ![r].context_used = ContextUsed(ContextRead(last_retrieved_context)),
                      ![r].pc = "finished"]
    /\ UNCHANGED last_retrieved_context
    /\ OnlyRequests

NextConcurrent ==
    \E r \in Requests :
        Post(r) \/ RequestRetrieves(r) \/ RequestGenerates(r) \/ RequestFinishes(r)

SpecConcurrent == InitConcurrent /\ [][NextConcurrent]_vars

-----------------------------------------------------------------------------
(* The monthly quota of the chat endpoints: chatbot/models.py              *)
(* ChatUsageStats and the views of chatbot/api/views.py that read it       *)

FREE_LIMIT == 50

BASIC_LIMIT == 500

\* how far below its limit a user starts
MaxRemaining == 2

\* the calendar months the model runs through
MaxMonth == 3

\* models.py lines 172-184, on the row's counter and the user's plan
check_monthly_limits(monthly_messages_sent, subscription_type) ==
    IF subscription_type = "free" THEN monthly_messages_sent < FREE_LIMIT
    ELSE IF subscription_type = "basic" THEN monthly_messages_sent < BASIC_LIMIT
    ELSE IF subscription_type = "premium" THEN TRUE
    ELSE FALSE

\* models.py lines 159-164: the instance's own counter plus one, then save(),
\* which writes every field of the instance
increment_message_count(stats) ==
    [stats EXCEPT !.monthly_messages_sent = @ + 1]

\* models.py lines 152-157
reset_monthly_stats(stats, today) ==
    [stats EXCEPT !.monthly_messages_sent = 0, !.last_reset_date = today]

\* the counters a user of a plan can have been left with by earlier requests
StartCounts(subscription_type) ==
    IF subscription_type = "free" THEN (FREE_LIMIT - MaxRemaining)..FREE_LIMIT
    ELSE IF subscription_type = "basic" THEN (BASIC_LIMIT - MaxRemaining)..BASIC_LIMIT
    ELSE 0..MaxRemaining

\* a request of the chat endpoints: the view it runs, the ChatUsageStats
\* instance it loaded, the month it was issued in, its RAG generations and
\* its HTTP status
NewCall ==
    [pc |-> "idle", stats |-> <<>>, view |-> "none", issued |-> 0,
     generations |-> 0, status |-> 0]

\* the rows of one user: the plan, the ChatUsageStats row, the ChatMessages of
\* the session, and the posts answered since the counters were last zero
InitQuota ==
    /\ pc = "idle"
    /\ reranker = "None"
    /\ last_retrieved_context = <<>>
    /\ query = <<>>
    /\ queries = <<>>
    /\ n_per_query = N_PER_QUERY
    /\ qidx = 1
    /\ all_documents = <<>>
    /\ all_metadatas = <<>>
    /\ all_distances = <<>>
    /\ seen_docs = {}
    /\ fetched = <<>>
    /\ top_k = TOP_K
    /\ reranked = <<>>
    /\ context = <<>>
    /\ result = <<>>
    /\ calls = ZeroCalls
    /\ last_io = NoIO
    /\ requests = [r \in Requests |-> NewCall]
    /\ \E st \in {"free", "basic", "premium"} : \E n \in StartCounts(st) :
         db = [subscription_type |-> st,
               stats |-> [monthly_messages_sent |-> n, last_reset_date |-> 1],
               today |-> 1,
               user_messages |-> n, ai_messages |-> n, answered |-> n]

\* the web layer alone: the pipeline's variables stay as they are
OnlyWeb ==
    UNCHANGED <<pc, reranker, last_retrieved_context, query, queries, n_per_query,
                qidx, all_documents, all_metadatas, all_distances, seen_docs,
                fetched, top_k, reranked, context, result, calls, last_io>>

\* views.py lines 145-167: the row is loaded and the limit checked; 429, or
\* the user's message is created
PostChecks(r) ==
    /\ requests[r].pc = "idle"
    /\ LET stats == db.stats
           ok == check_monthly_limits(stats.monthly_messages_sent, db.subscription_type)
       IN  /\ requests' =
                [requests EXCEPT
                   ![r].view = "post", ![r].stats = stats,
                   ![r].issued = db.today,
                   ![r].pc = IF ok THEN "accepted" ELSE "done",
                   ![r].status = IF ok THEN 0 ELSE 429]
           /\ db' = IF ok THEN [db EXCEPT !.user_messages = @ + 1] ELSE db
    /\ OnlyWeb

\* views.py lines 174-192: generate_ai_response, then the AI message is created
PostAnswers(r) ==
    /\ requests[r].pc = "accepted"
    /\ requests' = [requests EXCEPT ![r].generations = @ + 1, ![r].pc = "answered"]
    /\ db' = [db EXCEPT !.ai_messages = @ + 1, !.answered = @ + 1]
    /\ OnlyWeb

\* views.py lines 203-211: the instance loaded at line 145 counts and is saved
PostIncrements(r) ==
    /\ requests[r].pc = "answered"
    /\ requests' = [requests EXCEPT ![r].status = 201, ![r].pc = "done"]
    /\ db' = [db EXCEPT !.stats = increment_message_count(requests[r].stats)]
    /\ OnlyWeb

\* views.py lines 485-558: edit_message of a user message that exists
EditMessage(r) ==
    /\ requests[r].pc = "idle"
    /\ db.user_messages > 0
    /\ requests' =
         [requests EXCEPT
            ![r].view = "edit_message", ![r].issued = db.today,
            ![r].generations = @ + 1, ![r].status = 200, ![r].pc = "done"]
    /\ db' = [db EXCEPT !.ai_messages = @ + 1]
    /\ OnlyWeb

\* views.py lines 560-619: regenerate_response of an AI message that exists
RegenerateResponse(r) ==
    /\ requests[r].pc = "idle"
    /\ db.ai_messages > 0
    /\ db.user_messages > 0
    /\ requests' =
         [requests EXCEPT
            ![r].view = "regenerate_response", ![r].issued = db.today,
            ![r].generations = @ + 1, ![r].status = 200, ![r].pc = "done"]
    /\ UNCHANGED db
    /\ OnlyWeb

\* views.py lines 354-360: ChatUsageStatsView.get resets the counters of a row
\* last reset in another month
UsageStats(r) ==
    /\ requests[r].pc = "idle"
    /\ requests' =
         [requests EXCEPT
            ![r].view = "usage_stats", ![r].issued = db.today,
            ![r].status = 200, ![r].pc = "done"]
    /\ db' = IF db.stats.last_reset_date # db.today
             THEN [db EXCEPT !.stats = reset_monthly_stats(db.stats, db.today),
                             !.answered = 0]
             ELSE db
    /\ OnlyWeb

\* timezone.now() enters the next calendar month
MonthPasses ==
    /\ db.today < MaxMonth
    /\ db' = [db EXCEPT !.today = @ + 1]
    /\ UNCHANGED requests
    /\ OnlyWeb

NextQuota ==
    \/ \E r \in Requests :
          \/ PostChecks(r)
          \/ PostAnswers(r)
          \/ PostIncrements(r)
          \/ EditMessage(r)
          \/ RegenerateResponse(r)
          \/ UsageStats(r)
    \/ MonthPasses

SpecQuota == InitQuota /\ [][NextQuota]_vars

-----------------------------------------------------------------------------
(* The order webhooks of payments/views.py, delivered one at a time         *)

\* the webhook deliveries the model runs through
MaxDeliveries == 3

KNOWN_EMAIL == "user@example.com"

\* order_created events: data.id, attributes.user_email (of the user, of
\* nobody, missing) and attributes.total in hundredths
OrderEvents ==
    [id : {1, 2}, user_email : {KNOWN_EMAIL, "nobody@example.com", ""},
     total : {1000, 2550}]

\* Payment.objects.filter(lemon_squeezy_order_id=order_id): the positions of
\* the rows with that order id
PaymentsOf(payments, order_id) ==
    { i \in 1..Len(payments) : payments[i].lemon_squeezy_order_id = order_id }

\* Decimal(total) / 100: units and hundredths
Amount(total) == <<total \div 100, total % 100>>

\* the Payment that order_created stores, lines 557-572
NewPayment(user, event) ==
    [status |-> "completed", lemon_squeezy_order_id |-> event.id,
     user |-> user.email, amount |-> Amount(event.total), currency |-> "USD",
     subscription |-> user.subscription]

\* the handler with Payment.objects.create in the place of get_or_create
handle_order_created_creating(rows, event) ==
    IF event.user_email = "" THEN rows
    ELSE IF event.user_email # rows.user.email THEN rows
    ELSE [rows EXCEPT !.payments = Append(@, NewPayment(rows.user, event))]

\* payments/views.py lines 547-581: the rows after one delivery. No email:
\* return; no such user: logged; get_or_create finds one row: ignored; finds
\* several: MultipleObjectsReturned is logged; finds none: the row is created
handle_order_created(rows, event) ==
    IF event.user_email = "" THEN rows
    ELSE IF event.user_email # rows.user.email THEN rows
    ELSE IF PaymentsOf(rows.payments, event.id) # {} THEN rows
    ELSE [rows EXCEPT !.payments = Append(@, NewPayment(rows.user, event))]

\* payments/views.py lines 583-597: the one Payment of the order is refunded
handle_order_refunded(rows, order_id) ==
    LET found == PaymentsOf(rows.payments, order_id)
    IN  IF Cardinality(found) # 1 THEN rows
        ELSE [rows EXCEPT !.payments[CHOOSE i \in found : TRUE].status = "refunded"]

\* one user, with or without a Subscription, and no Payment yet
InitOrders ==
    /\ pc = "idle"
    /\ reranker = "None"
    /\ last_retrieved_context = <<>>
    /\ query = <<>>
    /\ queries = <<>>
    /\ n_per_query = N_PER_QUERY
    /\ qidx = 1
    /\ all_documents = <<>>
    /\ all_metadatas = <<>>
    /\ all_distances = <<>>
    /\ seen_docs = {}
    /\ fetched = <<>>
    /\ top_k = TOP_K
    /\ reranked = <<>>
    /\ context = <<>>
    /\ result = <<>>
    /\ calls = ZeroCalls
    /\ last_io = NoIO
    /\ requests = NoRequests
    /\ \E sub \in {None, Some(<<1>>)} :
         db = [payments |-> <<>>,
               user |-> [email |-> KNOWN_EMAIL, subscription |-> sub]]

\* lemon_squeezy_webhook, lines 139-196, delivers an order_created event
OrderCreated ==
    /\ Len(requests) < MaxDeliveries
    /\ \E event \in OrderEvents :
         /\ db' = handle_order_created(db, event)
         /\ requests' = Append(requests, [event_name |-> "order_created", data |-> event])
    /\ OnlyWeb

\* lemon_squeezy_webhook delivers an order_refunded event
OrderRefunded ==
    /\ Len(requests) < MaxDeliveries
    /\ \E order_id \in {1, 2} :
         /\ db' = handle_order_refunded(db, order_id)
         /\ requests' = Append(requests, [event_name |-> "order_refunded",
                                          data |-> [id |-> order_id]])
    /\ OnlyWeb

NextOrders == OrderCreated \/ OrderRefunded

SpecOrders == InitOrders /\ [][NextOrders]_vars

-----------------------------------------------------------------------------
(* Properties                                                              *)

SamePrefix(d, e) == Slice(d, PREFIX_LEN) = Slice(e, PREFIX_LEN)

TotalGenerative == calls.translate + calls.expand + calls.rerank_translate + calls.generate

IsString(s) == \A i \in 1..Len(s) : s[i] \in Nat

\* C1: the aggregated result of retrieve_documents holds exactly one document
\* of every group of fetched documents that share their first 200 characters,
\* and it is the first document of the group in fetch order (sub-query order,
\* then result order).
C1_DedupFirstPerPrefix ==
    /\ \A i \in 1..Len(fetched) :
         Cardinality({ j \in 1..Len(all_documents) :
                         SamePrefix(all_documents[j], fetched[i]) }) = 1
    /\ \A j \in 1..Len(all_documents) :
         \E i \in 1..Len(fetched) :
            /\ fetched[i] = all_documents[j]
            /\ \A k \in 1..(i - 1) : ~SamePrefix(fetched[k], fetched[i])

\* two sub-queries were processed, and a later hit shares the prefix of an
\* earlier, different hit
C1_Witness ==
    /\ pc = "retrieved"
    /\ Len(queries) = 2
    /\ all_documents # <<>>
    /\ \E i, j \in 1..Len(fetched) :
         i < j /\ fetched[i] # fetched[j] /\ SamePrefix(fetched[i], fetched[j])

\* C2 (as stated): when retrieval returns zero documents, answer returns the
\* fixed no-information message and the invocation makes no call to the
\* Generative Client at all.
C2_NoGenerativeCallAtAll ==
    (pc = "done" /\ all_documents = <<>>) => (result = MSG_NO_INFO /\ TotalGenerative = 0)

\* C2 (amended): when retrieval returns zero documents, answer returns the
\* fixed no-information message, and makes neither the reranking translation
\* call nor the final generation call; the two calls of generate_multi_queries
\* are the invocation's only Generative Client calls.
C2_EmptyRetrievalShortCircuit ==
    /\ (pc = "generate") => all_documents # <<>>
    /\ (pc = "done" /\ all_documents = <<>>) =>
          /\ result = MSG_NO_INFO
          /\ calls.generate = 0
          /\ calls.rerank_translate = 0
          /\ calls.translate = 1
          /\ calls.expand = 1
          /\ TotalGenerative = 2

\* answer returned after a retrieval in which the store was queried and gave
\* no document
C2_Witness ==
    pc = "done" /\ all_documents = <<>> /\ calls.query >= 1 /\ reranker # "None"

\* C3: generate_multi_queries returns between 1 and 4 strings and element 0
\* is non-empty, whatever the two generative calls do.
C3_ExpansionBound ==
    (pc = "retrieve") =>
        /\ Len(queries) >= 1
        /\ Len(queries) <= MAX_QUERIES
        /\ queries[1] # <<>>

\* C4: after answer returns, last_retrieved_context holds the context
\* assembled for this invocation's query, also when it short-circuited on an
\* empty retrieval.
C4_ContextOverwritten ==
    (pc = "done") => last_retrieved_context = context

\* C5: without a reranker rerank_documents returns exactly documents[:top_k],
\* each paired with its position, in input order, and calls neither the
\* generative client nor the cross-encoder.
C5_NoRerankerFallback ==
    (pc = "reranked" /\ reranker = "None") =>
        /\ Len(reranked) = Min(top_k, Len(all_documents))
        /\ \A i \in 1..Len(reranked) : reranked[i] = <<all_documents[i], i - 1>>
        /\ calls.rerank_translate = 0
        /\ calls.predict = 0

C5_Witness ==
    /\ pc = "reranked"
    /\ reranker = "None"
    /\ NonAscii(query)
    /\ top_k >= 2
    /\ Len(all_documents) > top_k

\* the score predict gave for document i of the input
ScoreOf(i) ==
    last_io[2].score[Pairs(QueryForRanking(query, last_io[1]), all_documents)[i]]

\* the top 3 scores (all of them when there are fewer) are below -10
TopScoresLow ==
    LET n == Len(all_documents) IN
    \E S \in SUBSET (1..n) :
        /\ Cardinality(S) = Min(TOP_CHECKED, n)
        /\ \A i \in S : \A j \in (1..n) \ S : ScoreOf(i) >= ScoreOf(j)
        /\ \A i \in S : ScoreOf(i) < LOW_SCORE

InputOrder ==
    /\ Len(reranked) = Min(top_k, Len(all_documents))
    /\ \A i \in 1..Len(reranked) : reranked[i] = <<all_documents[i], i - 1>>

ScoreOrder ==
    LET n == Len(all_documents)
        m == Min(top_k, n)
    IN  /\ Len(reranked) = m
        /\ \E p \in [1..m -> 1..n] :
             /\ \A i, j \in 1..m : i # j => p[i] # p[j]
             /\ \A i \in 1..m : reranked[i] = <<all_documents[p[i]], ScoreOf(p[i])>>
             /\ \A i \in 1..(m - 1) : ScoreOf(p[i]) >= ScoreOf(p[i + 1])
             /\ \A j \in (1..n) \ Range(p) : \A i \in 1..m : ScoreOf(j) <= ScoreOf(p[i])

Scored ==
    /\ pc = "reranked"
    /\ reranker # "None"
    /\ all_documents # <<>>
    /\ last_io[2].kind = "scores"

\* C6: with scores from the cross-encoder, rerank_documents returns the first
\* top_k documents in input order paired with their position when the top 3
\* scores are all below -10, and the score order otherwise.
C6_LowConfidenceFallback ==
    Scored => IF TopScoresLow THEN InputOrder ELSE ScoreOrder

\* all scores are below -10 and the score order differs from the input order
C6_Witness ==
    /\ Scored
    /\ TopScoresLow
    /\ top_k >= 2
    /\ Len(all_documents) >= 2
    /\ ScoreOf(1) < ScoreOf(2)
    /\ InputOrder

\* C7: a softener phrase that the raw generated text contains does not occur
\* in the string answer returns.
C7_HedgingRemoved ==
    (pc = "done" /\ calls.generate = 1 /\ last_io[1].kind = "text") =>
        \A k \in 1..Len(SOFTENERS) :
            Contains(last_io[1].text, SOFTENERS[k]) => ~Contains(result, SOFTENERS[k])

\* C8: no exception leaves answer, whatever fails, and answer returns a string.
C8_GracefulDegradation ==
    /\ pc # "raised"
    /\ (pc = "done") => IsString(result)

\* an invocation in which an embedding call raised, the cross-encoder was
\* called and the final generation raised
C8_Witness ==
    /\ pc = "done"
    /\ calls.embed_raised >= 1
    /\ calls.query >= 1
    /\ calls.predict = 1
    /\ calls.generate = 1
    /\ last_io[1].kind = "raise"

\* C9: when the final generative call raises, the string answer returns does
\* not contain the exception's detail text.
C9_ErrorStringFixed ==
    (pc = "done" /\ calls.generate = 1 /\ last_io[1].kind = "raise") =>
        ~Contains(result, last_io[1].detail)

EmbeddingAlwaysRaises == calls.embed >= 1 /\ calls.embed_raised = calls.embed

\* C10: when every embedding call raises, retrieve_documents collects nothing,
\* queries the vector store for no sub-query and lets no exception out, and
\* answer returns the fixed no-information message without the final
\* generation.
C10_EmbeddingFailure ==
    EmbeddingAlwaysRaises =>
        /\ all_documents = <<>>
        /\ calls.query = 0
        /\ pc \notin {"raised", "generate"}
        /\ calls.generate = 0
        /\ (pc = "done") => result = MSG_NO_INFO

C10_Witness ==
    pc = "done" /\ EmbeddingAlwaysRaises /\ calls.embed >= 2

IsPrefixOf(s, t) == Len(s) <= Len(t) /\ \A i \in 1..Len(s) : s[i] = t[i]

\* the embedding or the vector-store query of the sub-query just processed
\* failed
SubQueryFailed(io) == io[1].kind # "ok" \/ io[2].kind = "raise"

\* C11: a step of retrieve_documents for one sub-query never raises, moves on
\* to the next sub-query (returning after the last one) and keeps every
\* document collected so far; when its embedding call or its vector-store
\* query failed it leaves the collected lists exactly as they were.
C11_FailureIsolation ==
    [][ (pc = "retrieve") =>
          /\ pc' = (IF qidx = Len(queries) THEN "retrieved" ELSE "retrieve")
          /\ qidx' = qidx + 1
          /\ IsPrefixOf(all_documents, all_documents')
          /\ IsPrefixOf(all_metadatas, all_metadatas')
          /\ IsPrefixOf(all_distances, all_distances')
          /\ SubQueryFailed(last_io') =>
                /\ all_documents' = all_documents
                /\ all_metadatas' = all_metadatas
                /\ all_distances' = all_distances ]_vars

\* retrieve_documents returned documents of its first sub-query although the
\* vector-store query of its second sub-query raised
C11_Witness ==
    /\ pc = "retrieved"
    /\ Len(queries) = 2
    /\ last_io[2].kind = "raise"
    /\ Len(all_documents) >= 2

\* the cross-encoder was called and scoring failed: predict raised, or its
\* scores could not be converted or sorted
ScoringFailed ==
    /\ pc = "reranked"
    /\ reranker # "None"
    /\ all_documents # <<>>
    /\ last_io[2].kind \in {"raise", "garbage"}

\* C12: no exception leaves rerank_documents, and when scoring failed the
\* result is the first top_k documents in input order, each paired with its
\* position, as without a reranker.
C12_RerankNeverRaises ==
    /\ pc # "raised"
    /\ ScoringFailed => InputOrder

\* the translation of a non-ASCII query raised, then the scores could not be
\* sorted, with more documents than top_k
C12_Witness ==
    /\ ScoringFailed
    /\ NonAscii(query)
    /\ last_io[1].kind = "raise"
    /\ last_io[2].kind = "garbage"
    /\ top_k >= 2
    /\ Len(all_documents) > top_k

\* s.split(sep) for a separator of any length
RECURSIVE SplitOn(_, _)
SplitOn(s, sep) ==
    IF Contains(s, sep)
    THEN LET At(j) == SubSeq(s, j, j + Len(sep) - 1) = sep
             i == CHOOSE j \in 1..Len(s) : At(j) /\ \A k \in 1..(j - 1) : ~At(k)
         IN  <<SubSeq(s, 1, i - 1)>> \o SplitOn(SubSeq(s, i + Len(sep), Len(s)), sep)
    ELSE <<s>>

\* the number of documents fetched, counting those with the same first 200
\* characters once
UniqueFetched == Cardinality({ Slice(fetched[i], PREFIX_LEN) : i \in 1..Len(fetched) })

\* C13: an invocation issues at most 4 sub-queries, each with a limit of 12
\* results, so it fetches at most 48 documents, and its context is the join of
\* exactly min(6, number of unique documents fetched) of them, each taken once.
C13_SizeBounds ==
    /\ Len(queries) <= 4
    /\ calls.embed <= 4
    /\ calls.query <= 4
    /\ n_per_query = 12
    /\ Len(fetched) <= calls.query * n_per_query
    /\ Len(fetched) <= 48
    /\ (pc \in {"generate", "done"} /\ fetched # <<>>) =>
          LET parts == SplitOn(context, SEPARATOR) IN
          /\ Len(parts) = Min(6, UniqueFetched)
          /\ \A i \in 1..Len(parts) : parts[i] \in Range(fetched)
          /\ \A i, j \in 1..Len(parts) : i # j => parts[i] # parts[j]

\* four sub-queries fetched more than 6 unique documents and the cross-encoder
\* ranked them
C13_Witness ==
    /\ pc = "generate"
    /\ Len(queries) = 4
    /\ calls.query = 4
    /\ UniqueFetched > 6
    /\ calls.predict = 1
    /\ Len(reranked) = 6

\* retrieve_context of request r assigned last_retrieved_context
Wrote(r) ==
    /\ requests[r].pc \in {"generating", "answered", "finished"}
    /\ requests[r].documents # <<>>

\* C14: the context_used saved for a request is the context some request's
\* retrieve_context assigned to the shared last_retrieved_context, its own or
\* another request's (nothing, if its own retrieval found no document and none
\* was assigned yet); the state C14_Hazard in which it is the other request's
\* is reachable.
C14_ContextUsedFromSharedField ==
    \A r \in Requests :
        (requests[r].pc = "finished") =>
            \/ \E o \in Requests :
                  Wrote(o) /\ requests[r].context_used = ContextUsed(requests[o].context)
            \/ ~Wrote(r) /\ requests[r].context_used = None

\* both requests retrieved documents, their contexts differ, and a request
\* saved the context of the other as its context_used
C14_Hazard ==
    \E r, o \in Requests :
        /\ r # o
        /\ requests[r].pc = "finished"
        /\ Wrote(r)
        /\ Wrote(o)
        /\ requests[r].message # requests[o].message
        /\ requests[r].context # requests[o].context
        /\ requests[r].context_used = Some(requests[o].context)

\* the sub-queries whose iteration of the retrieval loop has run
SubQueriesDone == IF pc = "expand" THEN 0 ELSE qidx - 1

\* C15: the running invocation has made at most one translation and one
\* expansion call, exactly one embedding call and at most one vector-store
\* query per sub-query processed, at most one reranking translation, one
\* predict and one final generation call, whatever failed.
C15_NoRetry ==
    (pc # "idle") =>
        /\ calls.translate <= 1
        /\ calls.expand <= 1
        /\ calls.embed = SubQueriesDone
        /\ calls.embed <= Len(queries)
        /\ calls.query <= calls.embed - calls.embed_raised
        /\ calls.rerank_translate <= 1
        /\ calls.predict <= 1
        /\ calls.generate <= 1

\* an invocation in which an embedding call and the final generation raised
\* and every kind of call was made
C15_Witness ==
    /\ pc = "done"
    /\ calls.translate = 1
    /\ calls.expand = 1
    /\ Len(queries) = 3
    /\ calls.embed = 3
    /\ calls.embed_raised = 1
    /\ calls.query = 2
    /\ calls.rerank_translate = 1
    /\ calls.predict = 1
    /\ calls.generate = 1
    /\ last_io[1].kind = "raise"

\* t is s without its leading and trailing whitespace
IsStripped(t, s) ==
    \E a \in 0..Len(s) : \E b \in a..Len(s) :
        /\ t = SubSeq(s, a + 1, b)
        /\ \A k \in 1..a : s[k] \in WHITESPACE
        /\ \A k \in (b + 1)..Len(s) : s[k] \in WHITESPACE
        /\ (t # <<>>) => (t[1] \notin WHITESPACE /\ t[Len(t)] \notin WHITESPACE)

\* the translation call returned a response with text
TranslationSucceeded == last_io[1].kind = "text" /\ last_io[1].text # <<>>

\* t is the English form: the stripped text of the translation when it
\* returned text, the original query otherwise
IsEnglishForm(t) ==
    IF TranslationSucceeded THEN IsStripped(t, last_io[1].text) ELSE t = query

\* C16: generate_multi_queries never raises, and element 0 of its result is
\* the original query verbatim when the translation call raised or returned
\* no or empty text, and the stripped translation text when it returned text.
C16_TranslationFallback ==
    /\ pc # "raised"
    /\ (pc = "retrieve") => (queries # <<>> /\ IsEnglishForm(queries[1]))

\* the translation of a non-ASCII query raised and the expansion went on from
\* the original query
C16_Witness ==
    /\ pc = "retrieve"
    /\ last_io[1].kind = "raise"
    /\ NonAscii(query)
    /\ queries[1] = query
    /\ Len(queries) >= 2

\* the expansion call raised or returned no or empty text
ExpansionFailed == last_io[2].kind \in {"raise", "none"} \/ last_io[2].text = <<>>

\* C17: when the expansion call raises or returns an empty response, the
\* result of generate_multi_queries is the one-element list of the English
\* form.
C17_ExpansionFailure ==
    (pc = "retrieve" /\ ExpansionFailed) =>
        (Len(queries) = 1 /\ IsEnglishForm(queries[1]))

\* the translation gave an English form that differs from the original query,
\* then the expansion call raised
C17_Witness ==
    /\ pc = "retrieve"
    /\ TranslationSucceeded
    /\ last_io[2].kind = "raise"
    /\ queries # <<query>>
    /\ queries[1] # <<>>
    /\ Len(queries) = 1

\* s without its leading and trailing whitespace
Stripped(s) ==
    LET a == CHOOSE i \in 0..Len(s) :
                 /\ \A k \in 1..i : s[k] \in WHITESPACE
                 /\ (i < Len(s)) => s[i + 1] \notin WHITESPACE
        b == CHOOSE j \in a..Len(s) :
                 /\ \A k \in (j + 1)..Len(s) : s[k] \in WHITESPACE
                 /\ (j > a) => s[j] \notin WHITESPACE
    IN  SubSeq(s, a + 1, b)

\* q without its leading ASCII digits, '.', '-' and spaces
Unnumbered(q) ==
    LET a == CHOOSE i \in 0..Len(q) :
                 /\ \A k \in 1..i : q[k] \in (48..57) \cup {46, 45, 32}
                 /\ (i < Len(q)) => q[i + 1] \notin (48..57) \cup {46, 45, 32}
    IN  SubSeq(q, a + 1, Len(q))

\* what a line of the expansion response contributes: itself, stripped of
\* whitespace, when it does not start with a digit; when it does and is longer
\* than 3 characters, what follows its numbering, if anything; else nothing
ExpectedOf(line) ==
    LET q == Stripped(line) IN
    IF q = <<>> THEN <<>>
    ELSE IF q[1] \notin DIGITS THEN <<q>>
    ELSE IF Len(q) <= 3 THEN <<>>
    ELSE IF Stripped(Unnumbered(q)) = <<>> THEN <<>>
    ELSE <<Stripped(Unnumbered(q))>>

RECURSIVE ExpectedCandidates(_)
ExpectedCandidates(lines) ==
    IF lines = <<>> THEN <<>>
    ELSE ExpectedOf(Head(lines)) \o ExpectedCandidates(Tail(lines))

\* C18 (as stated): no element of the result of generate_multi_queries after
\* element 0 starts with a digit, '.', '-' or a space, or is 3 characters long
\* or shorter.
C18_CandidatesCleaned ==
    (pc = "retrieve") =>
        \A j \in 2..Len(queries) :
            /\ Len(queries[j]) > 3
            /\ queries[j][1] \notin DIGITS \cup {46, 45, 32}

\* C18 (amended): the elements after element 0 are, in order, the first 3
\* candidates of the lines of the stripped expansion response: a line that does
\* not start with a digit is a candidate as it is, stripped of whitespace only,
\* whatever its length; a line that starts with a digit is dropped when it is
\* 3 characters long or shorter and otherwise gives what follows its leading
\* digits, '.', '-' and spaces, when anything does. So every such element is
\* non-empty and has no leading or trailing whitespace.
C18_CandidateParsing ==
    (pc = "retrieve" /\ ~ExpansionFailed) =>
        /\ SubSeq(queries, 2, Len(queries))
              = Slice(ExpectedCandidates(Split(Stripped(last_io[2].text), 10)), 3)
        /\ \A j \in 2..Len(queries) :
              /\ queries[j] # <<>>
              /\ queries[j][1] \notin WHITESPACE
              /\ queries[j][Len(queries[j])] \notin WHITESPACE

\* the response had a 3-character line, a numbered line and a line led by
\* '-': "how", "who" and "- what" are returned
C18_Witness ==
    /\ pc = "retrieve"
    /\ Contains(last_io[2].text, <<49,46,32,119,104,111>>)
    /\ SubSeq(queries, 2, Len(queries))
          = << <<104,111,119>>, <<119,104,111>>, <<45,32,119,104,97,116>> >>

\* C19: with scores from the cross-encoder whose top 3 are not all below -10,
\* rerank_documents returns min(top_k, number of documents) pairs: the
\* documents with the highest scores, by descending score, each the whole
\* input document (not its first 400 characters) with the score given to it.
C19_NormalPath ==
    (Scored /\ ~TopScoresLow) =>
        /\ ScoreOrder
        /\ \A i \in 1..Len(reranked) : reranked[i][1] \in Range(all_documents)

\* a document longer than 400 characters, second in the input, is returned
\* first and whole, and the lowest-scored document is cut off
C19_Witness ==
    /\ Scored
    /\ ~TopScoresLow
    /\ top_k = 2
    /\ Len(all_documents) = 3
    /\ all_documents[1] = DOC_B
    /\ ScoreOf(1) < ScoreOf(2)
    /\ reranked[1][1] = DOC_L1
    /\ Len(reranked[1][1]) > CHUNK_LEN
    /\ Len(reranked) = 2

\* C20: in the result of rerank_documents, documents with equal scores keep
\* the relative order they have in the input.
C20_StableRerank ==
    Scored =>
        \E p \in [1..Len(reranked) -> 1..Len(all_documents)] :
            /\ \A i, j \in 1..Len(reranked) : i # j => p[i] # p[j]
            /\ \A i \in 1..Len(reranked) : reranked[i][1] = all_documents[p[i]]
            /\ \A i, j \in 1..Len(reranked) :
                  (i < j /\ ScoreOf(p[i]) = ScoreOf(p[j])) => p[i] < p[j]

\* two different documents with the same first 400 characters, hence the same
\* score, surround a lower-scored one in the input; the sort moves the latter
\* behind them
C20_Witness ==
    /\ Scored
    /\ ~TopScoresLow
    /\ all_documents = <<DOC_L2, DOC_B, DOC_L1>>
    /\ ScoreOf(2) < ScoreOf(1)
    /\ top_k = 3
    /\ Firsts(reranked) = <<DOC_L2, DOC_L1, DOC_B>>

\* hits with the documents ds
AsHits(ds) == [i \in 1..Len(ds) |-> Triple(ds[i], "", 0)]

\* the documents the first and the second of two sub-queries fetched
FetchedFirst == SubSeq(fetched, 1, Len(fetched) - Len(Docs(last_io[2].results)))
FetchedSecond ==
    SubSeq(fetched, Len(fetched) - Len(Docs(last_io[2].results)) + 1, Len(fetched))

\* the documents retrieve_documents returns when the second sub-query is
\* processed before the first, with the same vector-store results
Swapped ==
    AddResults(AddResults(EmptyAcc, AsHits(FetchedSecond)), AsHits(FetchedFirst)).documents

Prefixes(ds) == { Slice(ds[i], PREFIX_LEN) : i \in 1..Len(ds) }

TwoSubQueriesDone == pc = "retrieved" /\ Len(queries) = 2

\* C21 (as stated): the set of documents retrieve_documents returns is the
\* same when its two sub-queries are processed in the other order.
C21_OrderIndependentDocuments ==
    TwoSubQueriesDone => Range(Swapped) = Range(all_documents)

\* C21 (amended): processed in the other order, the two sub-queries give as
\* many documents, with the same set of 200-character prefixes.
C21_OrderIndependentPrefixes ==
    TwoSubQueriesDone =>
        /\ Len(Swapped) = Len(all_documents)
        /\ Prefixes(Swapped) = Prefixes(all_documents)

\* the sub-queries fetched different documents with the same prefix: one
\* order returns the one, the other order the other
C21_Witness ==
    /\ TwoSubQueriesDone
    /\ DOC_A1 \in Range(all_documents)
    /\ DOC_A2 \notin Range(all_documents)
    /\ DOC_A2 \in Range(Swapped)
    /\ DOC_A1 \notin Range(Swapped)
    /\ DOC_B \in Range(Swapped)

\* s in lower case (the letters A-Z)
Lower(s) == [i \in 1..Len(s) |-> IF s[i] \in 65..90 THEN s[i] + 32 ELSE s[i]]

\* C22: a softener phrase that occurs in the raw generated text in any letter
\* case, at any position, does not occur in the string answer returns, in any
\* letter case.
C22_CaseInsensitiveRemoval ==
    (pc = "done" /\ calls.generate = 1 /\ last_io[1].kind = "text") =>
        \A k \in 1..Len(SOFTENERS) :
            Contains(Lower(last_io[1].text), SOFTENERS[k])
                => ~Contains(Lower(result), SOFTENERS[k])

\* the place of aggregated document i by distance, nearest first, documents at
\* the same distance in aggregation order
DistanceRank(i) ==
    1 + Cardinality({ j \in 1..Len(all_documents) :
                        \/ all_distances[j] < all_distances[i]
                        \/ all_distances[j] = all_distances[i] /\ j < i })

NearestFirst ==
    [r \in 1..Min(6, Len(all_documents)) |->
        all_documents[CHOOSE i \in 1..Len(all_documents) : DistanceRank(i) = r]]

ContextAssembled == pc \in {"generate", "done"} /\ all_documents # <<>>

\* C23: without a reranker the context joins, with the fixed separator, the 6
\* nearest aggregated documents by ascending distance, ties in aggregation
\* order; with a reranker it joins the documents of the at most 6 pairs that
\* rerank_documents returned for the original query, in their order.
C23_ContextOrder ==
    ContextAssembled =>
        IF reranker = "None"
        THEN /\ context = Join(SEPARATOR, NearestFirst)
             /\ reranked = <<>>
             /\ calls.predict = 0
        ELSE /\ context = Join(SEPARATOR, Firsts(reranked))
             /\ Len(reranked) = Min(6, Len(all_documents))
             /\ \A i \in 1..Len(reranked) : reranked[i][1] \in Range(all_documents)
             /\ calls.predict = 1
             /\ calls.rerank_translate = (IF NonAscii(query) THEN 1 ELSE 0)

\* without a reranker, more than 6 documents were aggregated, not in distance
\* order, a nearer one after a farther one at the distance of a third
C23_Witness ==
    /\ ContextAssembled
    /\ reranker = "None"
    /\ Len(all_documents) > 6
    /\ \E i, j, k \in 1..Len(all_documents) :
          /\ i < j /\ j < k
          /\ all_distances[i] = all_distances[k]
          /\ all_distances[j] < all_distances[i]
          /\ DistanceRank(k) <= 6

\* the final generation call returned no response, or a response without text
EmptyGeneration ==
    /\ pc = "done"
    /\ calls.generate = 1
    /\ last_io[1].kind \in {"none", "text"}
    /\ last_io[1].text = <<>>

\* C24: when the final generation returns no response or empty text, answer
\* raises nothing and returns the fixed failure message, which is not empty,
\* and last_retrieved_context holds the context assembled for this query.
C24_EmptyGenerationFails ==
    /\ pc # "raised"
    /\ EmptyGeneration =>
          /\ result = MSG_NO_ANSWER
          /\ result # <<>>
          /\ context # <<>>
          /\ last_retrieved_context = context

\* the response carried an empty text, after a retrieval that the
\* cross-encoder ranked
C24_Witness ==
    /\ EmptyGeneration
    /\ last_io[1].kind = "text"
    /\ calls.predict = 1
    /\ result = MSG_NO_ANSWER

\* C25: answer returns the no-information message only when retrieval gave no
\* document; when at least one document was retrieved, whatever its text, the
\* final generation call is made exactly once.
C25_NoInfoOnlyWithoutDocuments ==
    (pc = "done") =>
        /\ (result = MSG_NO_INFO) => all_documents = <<>>
        /\ (all_documents # <<>>) => calls.generate = 1

\* C26: the lists documents, metadatas and distances that retrieve_documents
\* builds have the same length at every moment, and position i of the three
\* is the document, metadata and distance of one hit of the store that the
\* result loop got to, also after a query or a result loop that failed.
C26_ParallelLists ==
    /\ Len(all_metadatas) = Len(all_documents)
    /\ Len(all_distances) = Len(all_documents)
    /\ \A i \in 1..Len(all_documents) :
         /\ Triple(all_documents[i], all_metadatas[i], all_distances[i]) \in MoreTriples
         /\ all_documents[i] \in Range(fetched)

\* after the first sub-query fetched a document, the result loop of the
\* second added one and then failed on a hit without text
C26_Witness ==
    /\ pc = "retrieved"
    /\ Len(queries) = 2
    /\ Len(last_io[2].results) >= 2
    /\ last_io[2].results[Len(last_io[2].results)].doc = NoText
    /\ Len(FetchedSecond) >= 1
    /\ DOC_A1 \in Range(FetchedFirst)
    /\ all_documents[Len(all_documents)] = FetchedSecond[Len(FetchedSecond)]
    /\ Len(all_documents) >= 2

-----------------------------------------------------------------------------
(* The monthly quota                                                        *)

\* the monthly limit of a plan that has one
Limit(subscription_type) ==
    IF subscription_type = "free" THEN FREE_LIMIT ELSE BASIC_LIMIT

LimitReached == ~check_monthly_limits(db.stats.monthly_messages_sent, db.subscription_type)

\* C27: under every interleaving of concurrent posts, the posts of a free or
\* basic user accepted and answered since the last monthly reset never exceed
\* the plan's limit, and a post rejected with 429 made no RAG generation
C27_QuotaNeverExceeded ==
    /\ db.subscription_type \in {"free", "basic"} =>
          db.answered <= Limit(db.subscription_type)
    /\ \A r \in Requests : requests[r].status = 429 => requests[r].generations = 0

\* C28: a request of a chat endpoint that starts when the monthly limit is
\* reached makes no RAG answer generation
C28_NoGenerationAtLimit ==
    [][\A r \in Requests :
          (requests[r].pc = "idle" /\ requests'[r].pc # "idle" /\ LimitReached) =>
              requests'[r].generations = 0]_vars

\* C29: a post issued in a calendar month later than the one the counters
\* were last reset in is not rejected for the monthly limit
C29_PostAcceptedInLaterMonth ==
    \A r \in Requests :
        (requests[r].view = "post" /\ requests[r].issued > requests[r].stats.last_reset_date) =>
            requests[r].status # 429

-----------------------------------------------------------------------------
(* The order webhooks                                                       *)

\* the deliveries so far that carried the event
Deliveries(event) ==
    { i \in 1..Len(requests) :
        requests[i].event_name = "order_created" /\ requests[i].data = event }

\* C30: every delivery of an order_created event of an existing user leaves
\* exactly one Payment with the event's order id, and a delivery of an event
\* that was delivered before changes no row
C30_OrderCreatedIdempotent ==
    [][\A event \in OrderEvents :
          (/\ requests' = Append(requests, [event_name |-> "order_created", data |-> event])
           /\ event.user_email = db.user.email) =>
              /\ Cardinality(PaymentsOf(db'.payments, event.id)) = 1
              /\ Deliveries(event) # {} => db' = db]_vars

\* the deliveries are used up, one event of the user was delivered at least
\* twice, and one Payment holds its order id
C30_Witness ==
    \E event \in OrderEvents :
        /\ event.user_email = db.user.email
        /\ Cardinality(Deliveries(event)) >= 2
        /\ Cardinality(PaymentsOf(db.payments, event.id)) = 1
        /\ Len(requests) = MaxDeliveries

====
